---- MODULE Spec2Model ----
(***************************************************************************)
(* A model of the leveled, tagged console logger of logger.go.             *)
(*                                                                         *)
(* A Go string is a sequence of its bytes, each written as a one-character *)
(* string ("ESC" is the byte 0x1b), so that hashing, formatting and line   *)
(* composition are computed, byte by byte, the way the Go code does.       *)
(***************************************************************************)
EXTENDS Integers, Sequences, FiniteSets, TLC

VARIABLES
    intBits,   \* width of Go's int on the build's platform: 32 or 64
    status,    \* "start" before New, "ready" once New returned, "panicked"
    logger,    \* the logger struct New returned (tag, color, level, writer)
    newArgs,   \* the arguments New was called with (tag, opts)
    sinks,     \* io.Writer name -> the bytes it has accepted so far
    ops,       \* every operation performed on a sink, in order
    last,      \* what the last logging call did
    ncalls,    \* number of logging calls made so far
    exited,    \* -1 while the process runs, else its exit status
    clock,     \* the wall clock, in seconds since the epoch
    ustack,    \* the calling goroutine's stack below the logging method
    budget,    \* number of logging calls the run may make
    tpc,       \* thread -> its position inside a logging call
    tlogger,   \* thread -> the logger instance it logs through
    tcall,     \* thread -> the call it is executing
    lineLog    \* lines whose write has begun, in that order

vars == <<intBits, status, logger, newArgs, sinks, ops, last, ncalls,
          exited, clock, ustack, budget, tpc, tlogger, tcall, lineLog>>

----------------------------------------------------------------------------
(* Bounds of the model. *)

MaxTagLen == 2
MaxOpts == 2
MaxCalls == 2
MaxThreads == 2
MaxThreadCalls == 2

----------------------------------------------------------------------------
(* Byte strings. *)

RECURSIVE Flatten(_)
Flatten(ss) == IF ss = <<>> THEN <<>> ELSE Head(ss) \o Flatten(Tail(ss))

RECURSIVE Repeat(_, _)
Repeat(c, n) == IF n <= 0 THEN <<>> ELSE <<c>> \o Repeat(c, n - 1)

Count(s, c) == Cardinality({i \in 1..Len(s) : s[i] = c})

SeqsUpTo(S, n) == UNION {[1..k -> S] : k \in 0..n}


----------------------------------------------------------------------------
(* Levels (logger.go:13-18) and colors (logger.go:22-43). *)

Debug == 0
Info == 1
Warn == 2
Error == 3

NoColor == <<"ESC", "[", "0", "m">>
Red     == <<"ESC", "[", "9", "1", "m">>
Green   == <<"ESC", "[", "3", "2", "m">>
Yellow  == <<"ESC", "[", "3", "3", "m">>
Blue    == <<"ESC", "[", "3", "4", "m">>
Magenta == <<"ESC", "[", "3", "5", "m">>
Cyan    == <<"ESC", "[", "3", "6", "m">>
White   == <<"ESC", "[", "3", "7", "m">>

colors == <<Red, Green, Yellow, Blue, Magenta, Cyan, White>>

----------------------------------------------------------------------------
(* hash: 32-bit FNV-1a.  A uint32 is kept as two 16-bit halves [hi, lo] so *)
(* that no intermediate value leaves the range of TLC's 32-bit integers.   *)

\* the byte value of a character a tag may hold
Ord(c) == CASE c = "a" -> 97 [] c = "d" -> 100 [] c = "\n" -> 10

RECURSIVE Xor(_, _)
Xor(a, b) ==
    IF a = 0 THEN b
    ELSE IF b = 0 THEN a
    ELSE (((a % 2) + (b % 2)) % 2) + (2 * Xor(a \div 2, b \div 2))

\* offset basis 2166136261 = 0x811C9DC5
FnvOffset32 == [hi |-> 33052, lo |-> 40389]

\* h * 16777619 mod 2^32, with 16777619 = 2^24 + 403
FnvMul32(h) ==
    LET p == h.lo * 403
    IN  [lo |-> p % 65536,
         hi |-> ((h.hi * 403) + (p \div 65536) + ((h.lo % 256) * 256)) % 65536]

FnvStep(h, byte) == FnvMul32([hi |-> h.hi, lo |-> Xor(h.lo, byte)])

RECURSIVE FnvWrite(_, _)
FnvWrite(h, s) ==
    IF s = <<>> THEN h ELSE FnvWrite(FnvStep(h, Ord(Head(s))), Tail(s))

hash(s) == FnvWrite(FnvOffset32, s)

\* the uint32 u modulo a small m, as an unsigned value
U32Mod(u, m) == (((u.hi % m) * (65536 % m)) + (u.lo % m)) % m

\* int(u) % m as Go computes it: int is intBits wide, the conversion of a
\* uint32 >= 2^31 to a 32-bit int wraps to u - 2^32, and % truncates toward
\* zero, so a negative dividend gives a remainder <= 0.
IntRem(u, m, bits) ==
    IF bits = 32 /\ u.hi >= 32768
    THEN 0 - (((((65536 % m) * (65536 % m)) % m) + m - U32Mod(u, m)) % m)
    ELSE U32Mod(u, m)

----------------------------------------------------------------------------
(* Options (logger.go:70-86) and New (logger.go:53-68). *)

NoLogger == [tag |-> <<>>, color |-> <<>>, level |-> Info, writer |-> "none"]

Writer(w) == [kind |-> "Writer", w |-> w, c |-> <<>>, l |-> 0]
Color(c)  == [kind |-> "Color", w |-> "none", c |-> c, l |-> 0]
Level(l)  == [kind |-> "Level", w |-> "none", c |-> <<>>, l |-> l]

\* opt(logger): the closure each option returns
ApplyOption(opt, lg) ==
    CASE opt.kind = "Writer" -> [lg EXCEPT !.writer = opt.w]
      [] opt.kind = "Color"  -> [lg EXCEPT !.color = opt.c]
      [] opt.kind = "Level"  -> [lg EXCEPT !.level = opt.l]

\* a faulty variant: the options applied last to first, so the first one wins
RECURSIVE ApplyOptionsReversed(_, _)
ApplyOptionsReversed(opts, lg) ==
    IF opts = <<>> THEN lg
    ELSE ApplyOption(Head(opts), ApplyOptionsReversed(Tail(opts), lg))

\* for _, opt := range opts { opt(logger) }
RECURSIVE ApplyOptions(_, _)
ApplyOptions(opts, lg) ==
    IF opts = <<>> THEN lg
    ELSE ApplyOptions(Tail(opts), ApplyOption(Head(opts), lg))

\* int(hash(tag)) % len(colors)
ColorIndex(tag, bits) == IntRem(hash(tag), Len(colors), bits)

\* colors[i] panics (index out of range) unless 0 <= i < len(colors)
NewPanics(tag, bits) ==
    LET i == ColorIndex(tag, bits) IN i < 0 \/ i >= Len(colors)

NewLogger(tag, opts, bits) ==
    ApplyOptions(opts, [tag |-> tag,
                        color |-> colors[ColorIndex(tag, bits) + 1],
                        level |-> Info,
                        writer |-> "stdout"])

TagChars == {"a", "d", "\n"}
Tags == SeqsUpTo(TagChars, MaxTagLen)
Writers == {"stdout", "buf", "full"}
Options == {Writer("buf"), Writer("full"), Color(Blue),
            Level(Debug), Level(Warn), Level(Error + 1)}

----------------------------------------------------------------------------
(* fmt.Sprint and fmt.Sprintf, as format (logger.go:170-172) and formatf   *)
(* (logger.go:174-176) use them.  An operand is a string or an int.        *)

Str(s) == [k |-> "string", s |-> s, i |-> 0]
Num(i) == [k |-> "int", s |-> <<>>, i |-> i]

Digit(d) == <<"0", "1", "2", "3", "4", "5", "6", "7", "8", "9">>[d + 1]

RECURSIVE Itoa(_)
Itoa(n) == IF n < 10 THEN <<Digit(n)>> ELSE Itoa(n \div 10) \o <<Digit(n % 10)>>

\* an operand under %v
FormatValue(v) == IF v.k = "string" THEN v.s ELSE Itoa(v.i)

\* Sprint: operands concatenated, a space between two operands when neither
\* is a string
RECURSIVE Sprint(_)
Sprint(a) ==
    IF a = <<>> THEN <<>>
    ELSE IF Len(a) = 1 THEN FormatValue(a[1])
    ELSE LET n == Len(a)
             sep == IF a[n - 1].k # "string" /\ a[n].k # "string"
                    THEN <<" ">> ELSE <<>>
         IN  Sprint(SubSeq(a, 1, n - 1)) \o sep \o FormatValue(a[n])

TypeName(v) == IF v.k = "string" THEN <<"s", "t", "r", "i", "n", "g">> ELSE <<"i", "n", "t">>

RECURSIVE ExtraList(_)
ExtraList(a) ==
    IF a = <<>> THEN <<>>
    ELSE TypeName(Head(a)) \o <<"=">> \o FormatValue(Head(a))
         \o (IF Len(a) > 1 THEN <<",", " ">> ELSE <<>>) \o ExtraList(Tail(a))

\* Sprintf for the verbs %v and %%: a verb without an operand prints
\* %!v(MISSING), operands left over are listed as %!(EXTRA ...)
RECURSIVE Sprintf(_, _)
Sprintf(f, a) ==
    IF f = <<>>
    THEN IF a = <<>> THEN <<>> ELSE <<"%", "!", "(", "E", "X", "T", "R", "A", " ">> \o ExtraList(a) \o <<")">>
    ELSE IF Head(f) = "%" /\ Len(f) >= 2 /\ f[2] = "v"
    THEN IF a = <<>>
         THEN <<"%", "!", "v", "(", "M", "I", "S", "S", "I", "N", "G", ")">> \o Sprintf(SubSeq(f, 3, Len(f)), a)
         ELSE FormatValue(Head(a)) \o Sprintf(SubSeq(f, 3, Len(f)), Tail(a))
    ELSE IF Head(f) = "%" /\ Len(f) >= 2 /\ f[2] = "%"
    THEN <<"%">> \o Sprintf(SubSeq(f, 3, Len(f)), a)
    ELSE <<Head(f)>> \o Sprintf(Tail(f), a)

format(a) == Sprint(a)

formatf(f, a) == Sprintf(f, a)

----------------------------------------------------------------------------
(* timestamp (logger.go:187-189): the clock in UTC, as RFC 3339.  The      *)
(* model's clock stays within the first ten seconds of the epoch.          *)

timestamp(now) == <<"1", "9", "7", "0", "-", "0", "1", "-", "0", "1", "T", "0", "0", ":", "0", "0", ":", "0">> \o <<Digit(now % 10)>> \o <<"Z">>

----------------------------------------------------------------------------
(* caller (logger.go:191-208) and pattern (logger.go:45-49).  A stack is a *)
(* sequence of frames, the innermost last; a frame holds the function name *)
(* its program counter maps to, if it maps to one.                         *)

Frame(fn) == [fn |-> fn, mapped |-> TRUE, own |-> FALSE]
UnmappedFrame == [fn |-> <<>>, mapped |-> FALSE, own |-> FALSE]
OwnFrame(fn) == [fn |-> fn, mapped |-> TRUE, own |-> TRUE]

MethodName(method) ==
    CASE method = "Fatal"  -> <<"F", "a", "t", "a", "l">>
      [] method = "Fatalf" -> <<"F", "a", "t", "a", "l", "f">>
      [] method = "Error"  -> <<"E", "r", "r", "o", "r">>
      [] method = "Errorf" -> <<"E", "r", "r", "o", "r", "f">>
      [] method = "Warn"   -> <<"W", "a", "r", "n">>
      [] method = "Warnf"  -> <<"W", "a", "r", "n", "f">>
      [] method = "Info"   -> <<"I", "n", "f", "o">>
      [] method = "Infof"  -> <<"I", "n", "f", "o", "f">>
      [] method = "Debug"  -> <<"D", "e", "b", "u", "g">>
      [] method = "Debugf" -> <<"D", "e", "b", "u", "g", "f">>

MethodFrame(method) == OwnFrame(<<"l", "o", "g", "g", "e", "r", ".", "(", "*", "l", "o", "g", "g", "e", "r", ")", ".">> \o MethodName(method))
LogFrame == OwnFrame(<<"l", "o", "g", "g", "e", "r", ".", "(", "*", "l", "o", "g", "g", "e", "r", ")", ".", "l", "o", "g">>)
CallerFrame == OwnFrame(<<"l", "o", "g", "g", "e", "r", ".", "c", "a", "l", "l", "e", "r">>)

\* a faulty variant: the public method calls caller without log in between
StackTwoBelowMethod(us, method) ==
    us \o <<MethodFrame(method), CallerFrame>>

\* the goroutine's stack when caller() runs: the public method called log,
\* and log called caller
StackAtCaller(us, method) ==
    us \o <<MethodFrame(method), LogFrame, CallerFrame>>

\* runtime.Caller(skip): skip 0 is the function calling runtime.Caller
RuntimeCaller(stack, skip) ==
    IF skip < Len(stack)
    THEN [ok |-> TRUE, idx |-> Len(stack) - skip]
    ELSE [ok |-> FALSE, idx |-> 0]

CallerSkip == 3

WordChars ==
    {"a", "b", "c", "d", "e", "f", "g", "h", "i", "j", "k", "l", "m", "n",
     "o", "p", "q", "r", "s", "t", "u", "v", "w", "x", "y", "z",
     "A", "B", "C", "D", "E", "F", "G", "H", "I", "J", "K", "L", "M", "N",
     "O", "P", "Q", "R", "S", "T", "U", "V", "W", "X", "Y", "Z",
     "0", "1", "2", "3", "4", "5", "6", "7", "8", "9", "_"}

\* pattern \(.*\)\.\w*.*? can match from i with its \) at j
PatternMatches(s, i, j) ==
    /\ i < j /\ j < Len(s)
    /\ s[i] = "(" /\ s[j] = ")" /\ s[j + 1] = "."
    /\ \A k \in (i + 1)..(j - 1) : s[k] # "\n"

Max(S) == CHOOSE x \in S : \A y \in S : y <= x
Min(S) == CHOOSE x \in S : \A y \in S : x <= y

\* pattern.FindString(s): the leftmost match; .* takes as much as it can,
\* then \w* does, and the lazy .*? takes nothing.  "" when nothing matches.
FindString(s) ==
    LET starts == {i \in 1..Len(s) : \E j \in 1..Len(s) : PatternMatches(s, i, j)}
    IN  IF starts = {} THEN <<>>
        ELSE LET i == Min(starts)
                 j == Max({j \in 1..Len(s) : PatternMatches(s, i, j)})
                 e == Max({e \in (j + 1)..Len(s) :
                             \A k \in (j + 2)..e : s[k] \in WordChars})
             IN  SubSeq(s, i, e)

UnknownCaller == <<"u", "n", "k", "n", "o", "w", "n", " ", "c", "a", "l", "l", "e", "r">>

\* a faulty variant: the name is never shortened
callerFullName(stack) ==
    LET r == RuntimeCaller(stack, CallerSkip)
    IN  IF ~r.ok THEN UnknownCaller
        ELSE IF ~stack[r.idx].mapped THEN UnknownCaller
        ELSE stack[r.idx].fn

caller(stack) ==
    LET r == RuntimeCaller(stack, CallerSkip)
    IN  IF ~r.ok THEN UnknownCaller
        ELSE IF ~stack[r.idx].mapped THEN UnknownCaller
        ELSE LET match == FindString(stack[r.idx].fn)
             IN  IF match # <<>> THEN match ELSE stack[r.idx].fn

----------------------------------------------------------------------------
(* log (logger.go:178-185). *)

\* %5s: padded with spaces on the left to a width of 5, never cut
Pad5(s) == Repeat(" ", 5 - Len(s)) \o s

\* a faulty variant: the formats end without "\n"
logLineNoNewline(self, level, s, ts, who) ==
    IF self.tag # <<>>
    THEN <<"[">> \o ts \o <<"]", " ", "[">> \o Pad5(level) \o <<"]", " ", "[">>
         \o self.color \o self.tag \o NoColor
         \o <<"]", " ", "[">> \o who \o <<"]", " ">> \o s
    ELSE <<"[">> \o ts \o <<"]", " ", "[">> \o Pad5(level) \o <<"]", " ", "[">> \o who \o <<"]", " ">> \o s

\* a faulty variant: the format without a tag is used for every logger
logLineNoTag(self, level, s, ts, who) ==
    <<"[">> \o ts \o <<"]", " ", "[">> \o Pad5(level) \o <<"]", " ", "[">> \o who \o <<"]", " ">> \o s
    \o <<"\n">>

\* the string the Fprintf of log formats
logLine(self, level, s, ts, who) ==
    IF self.tag # <<>>
    THEN <<"[">> \o ts \o <<"]", " ", "[">> \o Pad5(level) \o <<"]", " ", "[">>
         \o self.color \o self.tag \o NoColor
         \o <<"]", " ", "[">> \o who \o <<"]", " ">> \o s \o <<"\n">>
    ELSE <<"[">> \o ts \o <<"]", " ", "[">> \o Pad5(level) \o <<"]", " ", "[">> \o who \o <<"]", " ">> \o s
         \o <<"\n">>

FullCap == 64

\* w.Write(p) on the writer named w holding cur: the count of bytes accepted
\* and whether an error is returned.  "stdout" and "buf" accept everything;
\* "full" is a writer with room for FullCap bytes, which accepts what fits
\* and returns an error for the rest.
SinkWrite(w, cur, p) ==
    IF w = "full"
    THEN LET room == IF Len(cur) >= FullCap THEN 0 ELSE FullCap - Len(cur)
         IN  IF Len(p) <= room THEN [n |-> Len(p), err |-> FALSE]
             ELSE [n |-> room, err |-> TRUE]
    ELSE [n |-> Len(p), err |-> FALSE]

\* a faulty variant: the line reaches the writer in two Write calls
WritesSplit(line) ==
    IF Len(line) < 2 THEN <<line>>
    ELSE <<SubSeq(line, 1, Len(line) \div 2),
           SubSeq(line, Len(line) \div 2 + 1, Len(line))>>

\* the Write calls one Fprintf makes: it formats into a buffer and hands the
\* buffer to the writer once
Writes(line) == <<line>>

\* the record of one w.Write(p) made by logging call number id
WriteOp(w, p, r, id) ==
    [op |-> "write", w |-> w, p |-> p, n |-> r.n, err |-> r.err, call |-> id]

\* the Write calls ps made one after the other on the writer named w
RECURSIVE WriteAll(_, _, _, _)
WriteAll(w, cur, ps, id) ==
    IF ps = <<>> THEN [bytes |-> cur, ops |-> <<>>]
    ELSE LET r == SinkWrite(w, cur, Head(ps))
             rest == WriteAll(w, cur \o SubSeq(Head(ps), 1, r.n), Tail(ps), id)
         IN  [bytes |-> rest.bytes,
              ops |-> <<WriteOp(w, Head(ps), r, id)>> \o rest.ops]

Suppressed(method) ==
    [method |-> method, call |-> ncalls + 1, emitted |-> FALSE,
     level |-> <<>>, msg |-> <<>>,
     line |-> <<>>, who |-> <<>>, stack |-> <<>>, frame |-> 0,
     returned |-> TRUE]

\* a faulty variant: an error of Write is raised as a panic
logSurfacesError(method, level, s) ==
    LET stack == StackAtCaller(ustack, method)
        line == logLine(logger, level, s, timestamp(clock), caller(stack))
        res == WriteAll(logger.writer, sinks[logger.writer], Writes(line),
                       ncalls + 1)
        failed == \E i \in 1..Len(res.ops) : res.ops[i].err
    IN  /\ sinks' = [sinks EXCEPT ![logger.writer] = res.bytes]
        /\ ops' = ops \o res.ops
        /\ last' = [method |-> method, call |-> ncalls + 1,
                    emitted |-> TRUE, level |-> level,
                    msg |-> s, line |-> line, who |-> caller(stack),
                    stack |-> stack,
                    frame |-> RuntimeCaller(stack, CallerSkip).idx,
                    returned |-> ~failed]
        /\ status' = IF failed THEN "panicked" ELSE status
        /\ UNCHANGED logger

\* self.log(level, s), called from the public method
log(method, level, s) ==
    LET stack == StackAtCaller(ustack, method)
        line == logLine(logger, level, s, timestamp(clock), caller(stack))
        res == WriteAll(logger.writer, sinks[logger.writer], Writes(line),
                       ncalls + 1)
    IN  /\ sinks' = [sinks EXCEPT ![logger.writer] = res.bytes]
        /\ ops' = ops \o res.ops
        /\ last' = [method |-> method, call |-> ncalls + 1,
                    emitted |-> TRUE, level |-> level,
                    msg |-> s, line |-> line, who |-> caller(stack),
                    stack |-> stack,
                    frame |-> RuntimeCaller(stack, CallerSkip).idx,
                    returned |-> TRUE]
        /\ UNCHANGED <<status, logger>>

\* a call whose level test fails does nothing
Skip(method) ==
    /\ last' = Suppressed(method)
    /\ UNCHANGED <<status, logger, sinks, ops>>

----------------------------------------------------------------------------
(* The public methods (logger.go:112-168).  The program calls them one     *)
(* after the other, while the process runs.                                *)

CanCall == status = "ready" /\ exited = -1 /\ ncalls < budget

\* the method returns to its caller
Return ==
    /\ ncalls' = ncalls + 1
    /\ clock' = clock + 1
    /\ UNCHANGED <<intBits, newArgs, exited, ustack, budget, tpc, tlogger,
                   tcall, lineLog>>

\* os.Exit(1)
Exit ==
    /\ exited' = 1
    /\ ncalls' = ncalls + 1
    /\ clock' = clock + 1
    /\ UNCHANGED <<intBits, newArgs, ustack, budget, tpc, tlogger, tcall,
                   lineLog>>

logger_Fatal(a) ==
    /\ CanCall
    /\ log("Fatal", <<"F", "A", "T", "A", "L">>, format(a))
    /\ Exit

logger_Fatalf(f, a) ==
    /\ CanCall
    /\ log("Fatalf", <<"F", "A", "T", "A", "L">>, formatf(f, a))
    /\ Exit

logger_Error(a) ==
    /\ CanCall
    /\ IF logger.level <= Error
       THEN log("Error", <<"E", "R", "R", "O", "R">>, format(a))
       ELSE Skip("Error")
    /\ Return

logger_Errorf(f, a) ==
    /\ CanCall
    /\ IF logger.level <= Error
       THEN log("Errorf", <<"E", "R", "R", "O", "R">>, formatf(f, a))
       ELSE Skip("Errorf")
    /\ Return

logger_Warn(a) ==
    /\ CanCall
    /\ IF logger.level <= Warn
       THEN log("Warn", <<"W", "A", "R", "N">>, format(a))
       ELSE Skip("Warn")
    /\ Return

\* a faulty variant: the level test is strict
logger_Warnf_strict(f, a) ==
    /\ CanCall
    /\ IF logger.level < Warn
       THEN log("Warnf", <<"W", "A", "R", "N">>, formatf(f, a))
       ELSE Skip("Warnf")
    /\ Return

logger_Warnf(f, a) ==
    /\ CanCall
    /\ IF logger.level <= Warn
       THEN log("Warnf", <<"W", "A", "R", "N">>, formatf(f, a))
       ELSE Skip("Warnf")
    /\ Return

logger_Info(a) ==
    /\ CanCall
    /\ IF logger.level <= Info
       THEN log("Info", <<"I", "N", "F", "O">>, format(a))
       ELSE Skip("Info")
    /\ Return

logger_Infof(f, a) ==
    /\ CanCall
    /\ IF logger.level <= Info
       THEN log("Infof", <<"I", "N", "F", "O">>, formatf(f, a))
       ELSE Skip("Infof")
    /\ Return

logger_Debug(a) ==
    /\ CanCall
    /\ IF logger.level <= Debug
       THEN log("Debug", <<"D", "E", "B", "U", "G">>, format(a))
       ELSE Skip("Debug")
    /\ Return

logger_Debugf(f, a) ==
    /\ CanCall
    /\ IF logger.level <= Debug
       THEN log("Debugf", <<"D", "E", "B", "U", "G">>, formatf(f, a))
       ELSE Skip("Debugf")
    /\ Return

----------------------------------------------------------------------------
(* Inputs. *)

PlainArgs == {<<Str(<<"s", "t", "a", "r", "t", "e", "d">>), Str(<<" ", "o", "k">>)>>,
              <<Str(<<"a", "\n", "b">>)>>,
              <<Num(1), Num(2)>>}

FormatArgs == {[f |-> <<"n", "=", "%", "v">>, a |-> <<Num(7)>>],
               [f |-> <<"%", "v", "\n">>, a |-> <<Str(<<"x">>)>>],
               [f |-> <<"%", "v", " ", "%", "%">>, a |-> <<>>]}

UserFuncs == {<<"m", "a", "i", "n", ".", "m", "a", "i", "n">>, <<"p", "k", "g", ".", "(", "*", "T", ")", ".", "R", "u", "n">>, <<"p", "k", "g", ".", "(", "*", "T", ")", ".", "R", "u", "n", ".", "f", "u", "n", "c", "1">>,
              <<"p", "k", "g", ".", "(", "*", "T", ")", ".", "R", "u", "n", "-", "f", "m">>, <<"p", "k", "g", ".", "g", "l", "o", "b", ".", ".", "f", "u", "n", "c", "1">>, <<"p", "k", "g", ".", "(", "*", "T", "[", ".", ".", ".", "]", ")", ".", "D", "o">>,
              <<"p", "k", "g", ".", "(", "*", "T", ")", ".", "R", "u", "n", ".", "(", "*", "U", ")", ".", "D", "o">>, <<"p", "k", "g", ".", "(", "*", "T", ")", ".">>}

UserFrames == {Frame(fn) : fn \in UserFuncs} \cup {UnmappedFrame}

MaxDepth == 2

UserStacks == SeqsUpTo(UserFrames, MaxDepth)

SampleTags == {<<>>, <<"d">>, <<"\n">>}
SampleOpts == {<<>>, <<Writer("buf")>>, <<Writer("full")>>,
               <<Color(Blue), Level(Debug)>>, <<Level(Warn)>>,
               <<Level(Error)>>, <<Level(Error + 1)>>}
SampleStack == <<Frame(<<"m", "a", "i", "n", ".", "m", "a", "i", "n">>), Frame(<<"p", "k", "g", ".", "(", "*", "T", ")", ".", "R", "u", "n">>)>>

Calls ==
    \/ \E a \in PlainArgs : logger_Fatal(a)
    \/ \E x \in FormatArgs : logger_Fatalf(x.f, x.a)
    \/ \E a \in PlainArgs : logger_Error(a)
    \/ \E x \in FormatArgs : logger_Errorf(x.f, x.a)
    \/ \E a \in PlainArgs : logger_Warn(a)
    \/ \E x \in FormatArgs : logger_Warnf(x.f, x.a)
    \/ \E a \in PlainArgs : logger_Info(a)
    \/ \E x \in FormatArgs : logger_Infof(x.f, x.a)
    \/ \E a \in PlainArgs : logger_Debug(a)
    \/ \E x \in FormatArgs : logger_Debugf(x.f, x.a)

NoArgs == [tag |-> <<>>, opts |-> <<>>]
NoLast == [method |-> "none", emitted |-> FALSE]

\* What every specification starts from, apart from the platform, the
\* construction and the caller's stack.
Idle ==
    /\ sinks = [w \in Writers |-> <<>>]
    /\ ops = <<>>
    /\ last = NoLast
    /\ ncalls = 0
    /\ exited = -1
    /\ clock = 0
    /\ tpc = [t \in 1..MaxThreads |-> "idle"]
    /\ tlogger = [t \in 1..MaxThreads |-> NoLogger]
    /\ tcall = [t \in 1..MaxThreads |-> NoLast]
    /\ lineLog = <<>>

\* New(tag, opts...): the index expression panics, or the logger is built
\* and every option applied to it in turn
New(tag, opts) ==
    /\ status = "start"
    /\ newArgs' = [tag |-> tag, opts |-> opts]
    /\ IF NewPanics(tag, intBits)
       THEN status' = "panicked" /\ logger' = NoLogger
       ELSE status' = "ready" /\ logger' = NewLogger(tag, opts, intBits)
    /\ UNCHANGED <<intBits, sinks, ops, last, ncalls, exited, clock, ustack,
                   budget, tpc, tlogger, tcall, lineLog>>

(* Construction alone: New on every tag and every option list within the   *)
(* bounds, on both platforms.                                              *)
InitNew ==
    /\ intBits \in {32, 64}
    /\ status = "start"
    /\ logger = NoLogger
    /\ newArgs = NoArgs
    /\ ustack = <<>>
    /\ budget = 0
    /\ Idle

NextNew == \E tag \in Tags, opts \in SeqsUpTo(Options, MaxOpts) : New(tag, opts)

SpecNew == InitNew /\ [][NextNew]_vars

\* the state New(tag, opts) leaves, for a sample of tags and options
Constructed(tags, optss) ==
    /\ intBits \in {32, 64}
    /\ \E tag \in tags, opts \in optss :
          /\ ~NewPanics(tag, intBits)
          /\ logger = NewLogger(tag, opts, intBits)
          /\ newArgs = [tag |-> tag, opts |-> opts]
    /\ status = "ready"

(* The logging calls of one goroutine on a constructed logger. *)
Init ==
    /\ Constructed(SampleTags, SampleOpts)
    /\ ustack = SampleStack
    /\ budget = MaxCalls
    /\ Idle

Next == Calls

Spec == Init /\ [][Next]_vars

(* One logging call from every stack of up to MaxDepth frames. *)
InitCaller ==
    /\ Constructed({<<"d">>}, {<<Level(Debug)>>})
    /\ ustack \in UserStacks
    /\ budget = 1
    /\ Idle

SpecCaller == InitCaller /\ [][Next]_vars

----------------------------------------------------------------------------
(* Several goroutines logging, each through a logger instance of its own   *)
(* or through a shared one, to one writer.  A call is entered (the         *)
(* level test, the message and the line are the goroutine's own work),     *)
(* then the line is handed to the writer, then the method returns or, in   *)
(* Fatal, exits the process.  The writer serializes its Write calls.       *)

Threads == 1..MaxThreads

Methods == {"Fatal", "Fatalf", "Error", "Errorf", "Warn", "Warnf",
            "Info", "Infof", "Debug", "Debugf"}

IsFatal(method) == method \in {"Fatal", "Fatalf"}

\* the level test of each public method
Passes(self, method) ==
    CASE method \in {"Fatal", "Fatalf"} -> TRUE
      [] method \in {"Error", "Errorf"} -> self.level <= Error
      [] method \in {"Warn", "Warnf"}   -> self.level <= Warn
      [] method \in {"Info", "Infof"}   -> self.level <= Info
      [] method \in {"Debug", "Debugf"} -> self.level <= Debug

\* the label each public method passes to log
Label(method) ==
    CASE method \in {"Fatal", "Fatalf"} -> <<"F", "A", "T", "A", "L">>
      [] method \in {"Error", "Errorf"} -> <<"E", "R", "R", "O", "R">>
      [] method \in {"Warn", "Warnf"}   -> <<"W", "A", "R", "N">>
      [] method \in {"Info", "Infof"}   -> <<"I", "N", "F", "O">>
      [] method \in {"Debug", "Debugf"} -> <<"D", "E", "B", "U", "G">>

IsFormatted(method) ==
    method \in {"Fatalf", "Errorf", "Warnf", "Infof", "Debugf"}

ConcMethods == {"Fatal", "Fatalf", "Info"}
ConcArgs == {[f |-> <<"%", "v", "!">>, a |-> <<Str(<<"x">>)>>]}

\* goroutine t calls a public method with the operands x.a, and with the
\* format x.f if the method takes one
TBegin(t, method, x) ==
    /\ status = "ready" /\ exited = -1 /\ ncalls < budget
    /\ tpc[t] = "idle"
    /\ ncalls' = ncalls + 1
    /\ clock' = clock + 1
    /\ IF Passes(tlogger[t], method)
       THEN LET s == IF IsFormatted(method) THEN formatf(x.f, x.a)
                     ELSE format(x.a)
                line == logLine(tlogger[t], Label(method), s,
                                timestamp(clock),
                                caller(StackAtCaller(ustack, method)))
            IN  /\ tpc' = [tpc EXCEPT ![t] = "log"]
                /\ tcall' = [tcall EXCEPT ![t] =
                       [method |-> method, emitted |-> TRUE,
                        call |-> ncalls + 1, line |-> line,
                        pending |-> Writes(line)]]
       ELSE /\ tpc' = tpc
            /\ tcall' = [tcall EXCEPT ![t] =
                   [method |-> method, emitted |-> FALSE,
                    call |-> ncalls + 1, line |-> <<>>, pending |-> <<>>]]
    /\ UNCHANGED <<intBits, status, logger, newArgs, sinks, ops, last,
                   exited, ustack, budget, tlogger, lineLog>>

\* one w.Write of goroutine t's call
TWrite(t) ==
    /\ exited = -1
    /\ tpc[t] = "log"
    /\ LET c == tcall[t]
           w == tlogger[t].writer
           p == Head(c.pending)
           r == SinkWrite(w, sinks[w], p)
       IN  /\ sinks' = [sinks EXCEPT ![w] = sinks[w] \o SubSeq(p, 1, r.n)]
           /\ ops' = Append(ops, WriteOp(w, p, r, c.call))
           /\ lineLog' = IF c.pending = Writes(c.line)
                         THEN Append(lineLog, [call |-> c.call, t |-> t,
                                               w |-> w, line |-> c.line])
                         ELSE lineLog
           /\ tcall' = [tcall EXCEPT ![t].pending = Tail(c.pending)]
           /\ tpc' = [tpc EXCEPT ![t] =
                         IF Tail(c.pending) # <<>> THEN "log"
                         ELSE IF IsFatal(c.method) THEN "exit"
                         ELSE "idle"]
    /\ UNCHANGED <<intBits, status, logger, newArgs, last, ncalls, exited,
                   clock, ustack, budget, tlogger>>

\* a faulty variant: Fatal returns to its caller instead of exiting
TExitReturns(t) ==
    /\ exited = -1
    /\ tpc[t] = "exit"
    /\ tpc' = [tpc EXCEPT ![t] = "idle"]
    /\ UNCHANGED <<intBits, status, logger, newArgs, sinks, ops, last,
                   ncalls, exited, clock, ustack, budget, tlogger, tcall,
                   lineLog>>

\* os.Exit(1) in Fatal and Fatalf, once log has returned
TExit(t) ==
    /\ exited = -1
    /\ tpc[t] = "exit"
    /\ exited' = 1
    /\ tpc' = [tpc EXCEPT ![t] = "exited"]
    /\ UNCHANGED <<intBits, status, logger, newArgs, sinks, ops, last,
                   ncalls, clock, ustack, budget, tlogger, tcall, lineLog>>

ConcTags == {<<"d">>, <<"a", "a">>}
ConcOpts == {<<>>, <<Level(Error + 1), Writer("buf")>>}

\* every goroutine holds a logger New returned; all were built with the same
\* options, so all write to the same writer (the width of int matters to
\* New alone)
InitConc ==
    /\ intBits = 64
    /\ status = "ready"
    /\ logger = NoLogger
    /\ newArgs = NoArgs
    /\ \E opts \in ConcOpts :
          tlogger \in [Threads -> {NewLogger(tag, opts, intBits) : tag \in ConcTags}]
    /\ ustack = <<Frame(<<"m", "a", "i", "n", ".", "m", "a", "i", "n">>)>>
    /\ budget = MaxThreadCalls
    /\ sinks = [w \in Writers |-> <<>>]
    /\ ops = <<>>
    /\ last = NoLast
    /\ ncalls = 0
    /\ exited = -1
    /\ clock = 0
    /\ tpc = [t \in Threads |-> "idle"]
    /\ tcall = [t \in Threads |-> NoLast]
    /\ lineLog = <<>>

NextConc ==
    \/ \E t \in Threads, m \in ConcMethods, x \in ConcArgs : TBegin(t, m, x)
    \/ \E t \in Threads : TWrite(t)
    \/ \E t \in Threads : TExit(t)

SpecConc == InitConc /\ [][NextConc]_vars

\* a goroutine that can run does run: the scheduler starves none
FairSpecConc ==
    SpecConc /\ \A t \in Threads : WF_vars(TWrite(t)) /\ WF_vars(TExit(t))

----------------------------------------------------------------------------
(* The claims. *)

LeveledMethods == {"Error", "Errorf", "Warn", "Warnf", "Info", "Infof",
                   "Debug", "Debugf"}

\* the severity of a call, Debug < Info < Warn < Error
SeverityOf(method) ==
    CASE method \in {"Debug", "Debugf"} -> 0
      [] method \in {"Info", "Infof"}   -> 1
      [] method \in {"Warn", "Warnf"}   -> 2
      [] method \in {"Error", "Errorf"} -> 3

HasNewline(s) == \E i \in 1..Len(s) : s[i] = "\n"

OpsOf(id) == {i \in 1..Len(ops) : ops[i].call = id}

OpsOn(w) == {i \in 1..Len(ops) : ops[i].w = w}

\* the strings handed to the writer named w, in order
RECURSIVE HandedTo(_, _)
HandedTo(w, os) ==
    IF os = <<>> THEN <<>>
    ELSE (IF Head(os).w = w THEN <<Head(os).p>> ELSE <<>>)
         \o HandedTo(w, Tail(os))

\* the value the last option of the given kind in opts sets, else dflt
LastOption(opts, kind, dflt) ==
    LET I == {i \in 1..Len(opts) : opts[i].kind = kind}
    IN  IF I = {} THEN dflt
        ELSE LET o == opts[CHOOSE i \in I : \A j \in I : j <= i]
             IN  CASE kind = "Writer" -> o.w
                   [] kind = "Color"  -> o.c
                   [] kind = "Level"  -> o.l

\* C1: a Debug/Info/Warn/Error call, plain or formatted, after any earlier
\* calls, writes to the sink exactly when its severity is at least the
\* logger's minimum level; a call below it writes nothing and changes
\* nothing.
C1_Filtering ==
    [][last'.method \in LeveledMethods =>
          /\ last'.emitted <=> SeverityOf(last'.method) >= logger.level
          /\ last'.emitted <=> Len(ops') = Len(ops) + 1
          /\ ~last'.emitted =>
                /\ ops' = ops /\ sinks' = sinks
                /\ logger' = logger /\ status' = status /\ exited' = exited
      ]_vars

C1_Witness ==
    /\ logger.level = Warn
    /\ ncalls = 2 /\ Len(ops) = 1
    /\ last.method = "Infof" /\ ~last.emitted

\* C2: Fatal and Fatalf write their FATAL line whatever the minimum level,
\* in one write, and then exit the process with status 1: the process has
\* exited only after that write, the exit follows the write, and nothing
\* runs once the process has exited.
C2_FatalWritesThenExits ==
    /\ [](\A t \in Threads :
             IsFatal(tcall[t].method) => tcall[t].emitted)
    /\ [](exited # -1 =>
             /\ exited = 1
             /\ \E t \in Threads :
                   /\ tpc[t] = "exited" /\ IsFatal(tcall[t].method)
                   /\ Cardinality(OpsOf(tcall[t].call)) = 1
                   /\ \A i \in OpsOf(tcall[t].call) :
                         /\ ops[i].p = tcall[t].line
                         /\ SubSeq(ops[i].p, 24, 30) = <<"[", "F", "A", "T", "A", "L", "]">>)
    /\ [][exited = -1]_vars
    /\ \A t \in Threads : (tpc[t] = "exit") ~> (exited = 1)

C2_Witness ==
    /\ exited = 1
    /\ tlogger[1].level > Error
    /\ tpc[1] = "exited" /\ tpc[2] = "log"

\* C3 as stated: the bytes one call writes end with a newline and hold no
\* other newline, whatever the message body.
C3_OneLinePerCall ==
    last.emitted =>
        /\ last.line[Len(last.line)] = "\n"
        /\ Count(last.line, "\n") = 1

\* C3 as amended: one call hands the writer one string, which ends with a
\* newline; it holds no other newline when the tag, the color and the
\* message body hold none; and a writer that accepted every write of such
\* strings holds as many lines as calls were emitted to it, in call order.
C3_OneLinePerCallWithoutNewlines ==
    /\ last.emitted =>
          /\ Cardinality(OpsOf(last.call)) = 1
          /\ \A i \in OpsOf(last.call) : ops[i].p = last.line
          /\ last.line[Len(last.line)] = "\n"
          /\ (~HasNewline(last.msg) /\ ~HasNewline(logger.tag)
                /\ ~HasNewline(logger.color))
             => Count(last.line, "\n") = 1
    /\ \A w \in Writers :
          (\A i \in OpsOn(w) : ~ops[i].err /\ Count(ops[i].p, "\n") = 1)
          => /\ sinks[w] = Flatten(HandedTo(w, ops))
             /\ Count(sinks[w], "\n") = Cardinality(OpsOn(w))

C3_Witness ==
    /\ ncalls = 2 /\ last.emitted
    /\ logger.tag # <<>> /\ ~HasNewline(logger.tag)
    /\ ~HasNewline(last.msg)
    /\ Count(sinks[logger.writer], "\n") = 2

\* C4: New assigns the color colors[hash(tag) mod 7] with the hash taken as
\* an unsigned value: the index lies in 0..6 and construction succeeds.
C4_ColorIndexInRange ==
    status # "start" =>
        /\ ColorIndex(newArgs.tag, intBits) \in 0..6
        /\ status = "ready"
        /\ LastOption(newArgs.opts, "Color", <<>>) = <<>>
           => logger.color = colors[U32Mod(hash(newArgs.tag), 7) + 1]

\* C5: each field of the logger New returns holds the value of the last
\* option that sets it, or its default (standard output, the color derived
\* from the tag, Info); the tag is the one given.
C5_LastOptionWins ==
    status = "ready" =>
        /\ logger.tag = newArgs.tag
        /\ logger.writer = LastOption(newArgs.opts, "Writer", "stdout")
        /\ logger.color =
              LastOption(newArgs.opts, "Color",
                         colors[ColorIndex(newArgs.tag, intBits) + 1])
        /\ logger.level = LastOption(newArgs.opts, "Level", Info)

C5_Witness ==
    /\ status = "ready"
    /\ Len(newArgs.opts) = 2
    /\ newArgs.opts[1].kind = "Level" /\ newArgs.opts[2].kind = "Level"
    /\ newArgs.opts[1].l # newArgs.opts[2].l

Bracket(s) == <<"[">> \o s \o <<"]">>

LabelOf(method) ==
    CASE method \in {"Fatal", "Fatalf"} -> <<"F", "A", "T", "A", "L">>
      [] method \in {"Error", "Errorf"} -> <<"E", "R", "R", "O", "R">>
      [] method \in {"Warn", "Warnf"}   -> <<"W", "A", "R", "N">>
      [] method \in {"Info", "Infof"}   -> <<"I", "N", "F", "O">>
      [] method \in {"Debug", "Debugf"} -> <<"D", "E", "B", "U", "G">>

\* the last five characters of the label behind five spaces
RightAligned5(label) ==
    SubSeq(<<" ", " ", " ", " ", " ">> \o label, Len(label) + 1, Len(label) + 5)

\* C6: an emitted line is the bracketed timestamp, the bracketed level label
\* right-aligned in 5 characters, for a non-empty tag the bracketed tag
\* between the logger's color and the reset sequence, the bracketed caller,
\* then the message and a newline; an empty tag has no segment.
C6_LineFormat ==
    last.emitted =>
        LET ts == SubSeq(last.line, 2, 21)
            clr == LastOption(newArgs.opts, "Color",
                              colors[ColorIndex(newArgs.tag, intBits) + 1])
            tagSegment == IF newArgs.tag = <<>> THEN <<>>
                          ELSE Bracket(clr \o newArgs.tag \o NoColor) \o <<" ">>
        IN  last.line =
               Bracket(ts) \o <<" ">>
               \o Bracket(RightAligned5(LabelOf(last.method))) \o <<" ">>
               \o tagSegment
               \o Bracket(last.who) \o <<" ">> \o last.msg \o <<"\n">>

C6_Witness ==
    /\ last.emitted
    /\ logger.tag # <<>>
    /\ logger.color = Blue
    /\ last.method = "Warn"

\* C7: a Debug/Info/Warn/Error call returns normally whatever the writer
\* answers, leaves the logger as it was and usable, and the only operation
\* it performs on a writer is Write, on the logger's own writer.
C7_NeverFails ==
    [][last'.method \in LeveledMethods =>
          /\ last'.returned
          /\ status' = "ready" /\ exited' = -1
          /\ logger' = logger
          /\ \A i \in 1..Len(ops') :
                ops'[i].op = "write"
                /\ (i > Len(ops) => ops'[i].w = logger.writer)
          /\ \A w \in Writers \ {logger.writer} : sinks'[w] = sinks[w]
      ]_vars

C7_Witness ==
    /\ ncalls = 2
    /\ Len(ops) = 2 /\ ops[1].err /\ ops[2].err
    /\ ops[1].n > 0 /\ ops[2].n = 0
    /\ last.method \in LeveledMethods /\ last.returned
    /\ status = "ready"

\* n holds a parenthesized receiver, a dot and what follows
HasReceiver(n) ==
    \E i, j \in 1..Len(n) : i < j /\ j < Len(n)
                            /\ n[i] = "(" /\ n[j] = ")" /\ n[j + 1] = "."

\* s is n[a..b], opens with the first parenthesis of n that a ")." follows,
\* and closes with the identifier behind the last ")." of n
IsReceiverMatch(s, n) ==
    \E a, b \in 1..Len(n) :
        /\ a <= b /\ s = SubSeq(n, a, b)
        /\ n[a] = "("
        /\ \A i \in 1..(a - 1) :
              ~(n[i] = "(" /\ \E j \in (i + 1)..(Len(n) - 1) :
                                 n[j] = ")" /\ n[j + 1] = ".")
        /\ \E k \in (a + 1)..(b - 1) :
              /\ n[k] = ")" /\ n[k + 1] = "."
              /\ \A j \in (k + 1)..(Len(n) - 1) :
                    ~(n[j] = ")" /\ n[j + 1] = ".")
              /\ \A m \in (k + 2)..b : n[m] \in WordChars
        /\ (b < Len(n) => n[b + 1] \notin WordChars)

\* C8: the caller shown is "unknown caller" when the frame three levels up
\* is unavailable or maps to no function, and the line is still written;
\* else it is the receiver-pattern match of the function's name when the
\* name holds one, and the whole name when it does not.
C8_CallerResolution ==
    last.emitted =>
        /\ OpsOf(last.call) # {}
        /\ \A i \in OpsOf(last.call) : ops[i].p = last.line
        /\ IF last.frame = 0 \/ ~last.stack[last.frame].mapped
           THEN last.who = <<"u", "n", "k", "n", "o", "w", "n", " ", "c", "a", "l", "l", "e", "r">>
           ELSE LET n == last.stack[last.frame].fn
                IN  IF HasReceiver(n)
                    THEN IsReceiverMatch(last.who, n)
                    ELSE last.who = n

C8_Witness ==
    /\ last.emitted
    /\ last.frame > 0
    /\ last.stack[last.frame].fn = <<"p", "k", "g", ".", "(", "*", "T", ")", ".", "R", "u", "n", ".", "f", "u", "n", "c", "1">>
    /\ last.who = <<"(", "*", "T", ")", ".", "R", "u", "n">>

\* C9: for each of the ten public methods the stack at the inspection is
\* the caller's stack, the public method, log and caller, so the frame three
\* levels up is the function that invoked the public method, never one of
\* the logger's own.
C9_FixedDepth ==
    last.method \in Methods =>
        /\ last.emitted
        /\ Len(last.stack) = Len(ustack) + 3
        /\ last.stack[Len(ustack) + 1] = MethodFrame(last.method)
        /\ last.frame = Len(ustack)
        /\ ustack # <<>> =>
              /\ last.stack[last.frame] = ustack[Len(ustack)]
              /\ ~last.stack[last.frame].own

C9_Witness ==
    /\ last.method = "Fatalf" /\ last.emitted
    /\ Len(ustack) = 2
    /\ last.frame = 2
    /\ last.stack[2].fn = <<"p", "k", "g", ".", "(", "*", "T", ")", ".", "R", "u", "n">>

\* the lines whose write has begun on the writer named w, in order
RECURSIVE LinesOn(_, _)
LinesOn(w, ls) ==
    IF ls = <<>> THEN <<>>
    ELSE (IF Head(ls).w = w THEN <<Head(ls).line>> ELSE <<>>)
         \o LinesOn(w, Tail(ls))

\* C10: each emitted call hands its whole line to the writer in one Write,
\* so under every interleaving of the goroutines a writer whose writes are
\* atomic holds whole lines only, one per emitted call.
C10_WholeLines ==
    /\ Len(ops) = Len(lineLog)
    /\ \A i \in 1..Len(ops) : ops[i].p = lineLog[i].line
    /\ \A i, j \in 1..Len(lineLog) :
          lineLog[i].call = lineLog[j].call => i = j
    /\ \A w \in Writers : sinks[w] = Flatten(LinesOn(w, lineLog))
    /\ \A t \in Threads :
          (tcall[t].emitted /\ tpc[t] # "log")
          => \E i \in 1..Len(lineLog) :
                lineLog[i].call = tcall[t].call
                /\ lineLog[i].line = tcall[t].line

C10_Witness ==
    /\ Len(lineLog) >= 2
    /\ lineLog[1].t # lineLog[2].t
    /\ lineLog[1].call > lineLog[2].call
    /\ tlogger[1] # tlogger[2]

====
